---------------------------- MODULE Spec2Model ----------------------------
(***************************************************************************)
(* Model of the AWS IoT fleet-provisioning client (src/main.go).           *)
(*                                                                         *)
(* One foreground goroutine (main) runs the two exchanges in sequence:     *)
(* certificate creation, then thing registration.  The MQTT client owns a  *)
(* serial delivery goroutine that runs the four subscription callbacks,    *)
(* which hand their result to main through four channels of capacity one.  *)
(* The broker and the provisioning service are the environment: the broker *)
(* handles the packets of the connection in the order they were sent, and  *)
(* the service answers a request it has received on the accepted or the    *)
(* rejected topic of that request.                                         *)
(***************************************************************************)
EXTENDS Integers, Sequences, FiniteSets, TLC

\* Responses (duplicates included) the service sends in one run.
MaxDeliveries == 3

-----------------------------------------------------------------------------
(* Constants of main.go                                                    *)

serialNumber == "testing_serial"
topicCreateCertificate == "$aws/certificates/create/json"
topicCreateAccepted == "$aws/certificates/create/json/accepted"
topicCreateRejected == "$aws/certificates/create/json/rejected"
topicRegisterThing == "$aws/provisioning-templates/testing_template/provision/json"
topicRegisterAccepted == "$aws/provisioning-templates/testing_template/provision/json/accepted"
topicRegisterRejected == "$aws/provisioning-templates/testing_template/provision/json/rejected"

ResponseTopics ==
    {topicCreateAccepted, topicCreateRejected, topicRegisterAccepted, topicRegisterRejected}

\* The two exchanges and the topics of each.
Exchanges == {"create", "register"}

AcceptedTopic(ex) == IF ex = "create" THEN topicCreateAccepted ELSE topicRegisterAccepted

RejectedTopic(ex) == IF ex = "create" THEN topicCreateRejected ELSE topicRegisterRejected

RequestTopic(ex) == IF ex = "create" THEN topicCreateCertificate ELSE topicRegisterThing

ExchangeOf(topic) ==
    IF topic \in {topicCreateCertificate, topicCreateAccepted, topicCreateRejected}
    THEN "create" ELSE "register"

-----------------------------------------------------------------------------
(* Payloads.  A payload is either a JSON object, kept as the sequence of   *)
(* its members in the order they appear on the wire, or bytes that are not *)
(* JSON.  A member's value is a string, a number or a nested object.       *)

Str(s) == [t |-> "str", s |-> s]
Num(s) == [t |-> "num", s |-> s]
Map(s) == [t |-> "map", s |-> s]
Member(k, v) == [k |-> k, v |-> v]

Object(members) == [kind |-> "object", text |-> "", members |-> members]
Text(s) == [kind |-> "text", text |-> s, members |-> <<>>]

Reverse(s) == [i \in 1..Len(s) |-> s[Len(s) + 1 - i]]

\* The Go type of each field of the two response structs, by JSON name.
CreateCertificateResponse ==
    [certificateId |-> "str", certificatePem |-> "str", privateKey |-> "str",
     certificateOwnershipToken |-> "str", resourceArns |-> "map"]

RegisterThingResponse == [deviceConfiguration |-> "map", thingName |-> "str"]

\* The zero value of a struct: every field empty.
ZeroValue(shape) == [f \in DOMAIN shape |-> ""]

\* json.Unmarshal(payload, &response): members are applied in wire order, a
\* later duplicate overwrites an earlier one, a member the struct does not
\* name is skipped, a missing member leaves the zero value, and a member of
\* the wrong JSON type or a payload that is not JSON is an error.
RECURSIVE Decode(_, _, _)
Decode(shape, members, acc) ==
    IF members = <<>> THEN [ok |-> TRUE, val |-> acc, err |-> Text("")]
    ELSE LET m == Head(members) IN
         IF m.k \notin DOMAIN shape THEN Decode(shape, Tail(members), acc)
         ELSE IF m.v.t # shape[m.k]
              THEN [ok |-> FALSE, val |-> ZeroValue(shape),
                    err |-> Text("json: cannot unmarshal into Go struct field")]
              ELSE Decode(shape, Tail(members), [acc EXCEPT ![m.k] = m.v.s])

Unmarshal(shape, payload) ==
    IF payload.kind # "object"
    THEN [ok |-> FALSE, val |-> ZeroValue(shape),
          err |-> Text("invalid character looking for beginning of value")]
    ELSE Decode(shape, payload.members, ZeroValue(shape))


-----------------------------------------------------------------------------
(* What the service may answer.                                            *)

\* A complete certificate-creation response carrying ownership token tok:
\* the certificate and key issued with a token are named after it.
CreateMembers(tok) ==
    << Member("certificateId", Str("abc")),
       Member("certificatePem", Str(IF tok = "tok123" THEN "CERTDATA" ELSE "CERTDATA2")),
       Member("privateKey", Str(IF tok = "tok123" THEN "KEYDATA" ELSE "KEYDATA2")),
       Member("certificateOwnershipToken", Str(tok)),
       Member("resourceArns", Map("{}")) >>

\* Complete responses, in two member orders.
ValidCreatePayloads ==
    {Object(CreateMembers("tok123")), Object(Reverse(CreateMembers("tok456")))}

\* Not JSON; an object without privateKey and certificateOwnershipToken.
MalformedCreatePayloads ==
    { Text("not json"),
      Object(<< Member("certificateId", Str("abc")),
                Member("certificatePem", Str("CERTDATA")) >>) }

RegisterMembers(name) ==
    << Member("deviceConfiguration", Map(IF name = "thing-1" THEN "{x:1}" ELSE "{x:2}")),
       Member("thingName", Str(name)) >>

ValidRegisterPayloads ==
    {Object(RegisterMembers("thing-1")), Object(Reverse(RegisterMembers("thing-2")))}

\* An object whose thingName is a number; an object without thingName.
MalformedRegisterPayloads ==
    { Object(<< Member("deviceConfiguration", Map("{x:1}")),
                Member("thingName", Num("7")) >>),
      Object(<< Member("deviceConfiguration", Map("{x:1}")) >>) }

RejectBodies == {Text("quota exceeded")}

Message(topic, payload) == [topic |-> topic, payload |-> payload]

Responses(ex) ==
    IF ex = "create"
    THEN {Message(topicCreateAccepted, p) : p \in ValidCreatePayloads \cup MalformedCreatePayloads}
             \cup {Message(topicCreateRejected, b) : b \in RejectBodies}
    ELSE {Message(topicRegisterAccepted, p) : p \in ValidRegisterPayloads \cup MalformedRegisterPayloads}
             \cup {Message(topicRegisterRejected, b) : b \in RejectBodies}

-----------------------------------------------------------------------------
(* State                                                                   *)

VARIABLES
    pc,                   \* main's position
    exit,                 \* "running", "ok" (main returned) or "fatal" (log.Fatal*: os.Exit(1))
    fatal,                \* what the log.Fatal* call that ended the run printed
    session,              \* the MQTT connection: "none", "connected", "disconnected"
    obound,               \* packets handed to the client, not yet handled by the broker
    sub,                  \* the state of each subscription at the broker
    token,                \* the token of the last Publish
    published,            \* the requests the broker has taken, in order
    sent,                 \* per exchange, the responses the service has sent
    inbound,              \* messages received by the client, not yet given to a callback
    certResponseChan, certErrorChan,
    registerResponseChan, registerErrorChan,
    certResponse,         \* received in main.go:139
    registerResponse,     \* received in main.go:193
    err,                  \* received in main.go:196 or main.go:202
    outcome,              \* per exchange, the case its select took
    timer,                \* per exchange, the time.After timer of its select
    files,                \* the two credential files
    reported              \* the thing name and configuration logged in main.go:194-195

vars ==
    << pc, exit, fatal, session, obound, sub, token, published, sent, inbound,
       certResponseChan, certErrorChan, registerResponseChan, registerErrorChan,
       certResponse, registerResponse, err, outcome, timer, files, reported >>

NoError == [prefix |-> "", detail |-> Text("")]
Errorf(prefix, detail) == [prefix |-> prefix, detail |-> detail]

NoFatal == [msg |-> "", err |-> NoError]

\* A decoded response together with the payload it was decoded from.
Decoded(shape, payload) == [val |-> Unmarshal(shape, payload).val, src |-> payload]

NoFile == [written |-> FALSE, data |-> "", perm |-> ""]
FileNames == {"permanent_cert.pem", "permanent_key.pem"}

Init ==
    /\ pc = "connect"
    /\ exit = "running"
    /\ fatal = NoFatal
    /\ session = "none"
    /\ obound = <<>>
    /\ sub = [t \in ResponseTopics |-> "none"]
    /\ token = "none"
    /\ published = <<>>
    /\ sent = [ex \in Exchanges |-> <<>>]
    /\ inbound = <<>>
    /\ certResponseChan = <<>>
    /\ certErrorChan = <<>>
    /\ registerResponseChan = <<>>
    /\ registerErrorChan = <<>>
    /\ certResponse = Decoded(CreateCertificateResponse, Object(<<>>))
    /\ registerResponse = Decoded(RegisterThingResponse, Object(<<>>))
    /\ err = NoError
    /\ outcome = [ex \in Exchanges |-> "none"]
    /\ timer = [ex \in Exchanges |-> "off"]
    /\ files = [f \in FileNames |-> NoFile]
    /\ reported = [thingName |-> "", deviceConfiguration |-> "", done |-> FALSE]

\* What lives in the process: gone when it ends.
memory ==
    << obound, token, inbound, certResponseChan, certErrorChan,
       registerResponseChan, registerErrorChan, timer >>

ProcessEnds ==
    /\ obound' = <<>>
    /\ token' = "none"
    /\ inbound' = <<>>
    /\ certResponseChan' = <<>>
    /\ certErrorChan' = <<>>
    /\ registerResponseChan' = <<>>
    /\ registerErrorChan' = <<>>
    /\ timer' = [ex \in Exchanges |-> "off"]

\* log.Fatal, log.Fatalf: print and os.Exit(1); deferred calls do not run.
Fatal(msg, e) ==
    /\ pc' = "exited"
    /\ ProcessEnds
    /\ exit' = "fatal"
    /\ fatal' = [msg |-> msg, err |-> e]

-----------------------------------------------------------------------------
(* main: connect and the certificate-creation exchange                     *)

\* main.go:98-102 with createMQTTClient
Connect ==
    /\ pc = "connect"
    /\ \/ /\ session' = "connected"
          /\ pc' = "subscribeCreateAccepted"
          /\ UNCHANGED <<exit, fatal, memory>>
       \/ /\ Fatal("Failed to create MQTT client: ", Errorf("failed to connect: ", Text("")))
          /\ UNCHANGED session
    /\ UNCHANGED << sub, published, sent, certResponse, registerResponse, err, outcome,
                    files, reported >>

\* client.Subscribe(topic, 1, callback): the SUBSCRIBE packet is queued and a
\* token returned, which main drops without waiting on it.
Subscribe(at, topic, next) ==
    /\ pc = at
    /\ obound' = Append(obound, [type |-> "SUBSCRIBE", topic |-> topic, payload |-> Text("")])
    /\ sub' = [sub EXCEPT ![topic] = "pending"]
    /\ pc' = next
    /\ UNCHANGED << exit, fatal, session, token, published, sent, inbound,
                    certResponseChan, certErrorChan, registerResponseChan, registerErrorChan,
                    certResponse, registerResponse, err, outcome, timer, files, reported >>

\* main.go:109
SubscribeCreateAccepted ==
    Subscribe("subscribeCreateAccepted", topicCreateAccepted, "subscribeCreateRejected")

\* main.go:118
SubscribeCreateRejected ==
    Subscribe("subscribeCreateRejected", topicCreateRejected, "publishCreate")

\* client.Publish(topic, 1, false, payload): the PUBLISH packet is queued.
Publish(at, topic, payload, next) ==
    /\ pc = at
    /\ obound' = Append(obound, [type |-> "PUBLISH", topic |-> topic, payload |-> payload])
    /\ token' = "pending"
    /\ pc' = next
    /\ UNCHANGED << exit, fatal, session, sub, published, sent, inbound,
                    certResponseChan, certErrorChan, registerResponseChan, registerErrorChan,
                    certResponse, registerResponse, err, outcome, timer, files, reported >>

\* main.go:124-127
createCertPayload == Object(<< Member("certificateSigningRequest", Str("")) >>)

\* main.go:132
PublishCreate ==
    Publish("publishCreate", topicCreateCertificate, createCertPayload, "waitPublishCreate")

\* The wait on a publish token with its error dropped: main goes on to the
\* select whether or not the broker took the request.
PublishWaitUnchecked(at, msg, next) ==
    /\ pc = at
    /\ token \in {"done", "error"}
    /\ pc' = next
    /\ UNCHANGED << exit, fatal, memory, session, sub, published, sent, certResponse,
                    registerResponse, err, outcome, files, reported >>

\* token.Wait() && token.Error() != nil
PublishWait(at, msg, next) ==
    /\ pc = at
    /\ token \in {"done", "error"}
    /\ IF token = "error"
       THEN Fatal(msg, Errorf("publish: ", Text("")))
       ELSE pc' = next /\ UNCHANGED <<exit, fatal, memory>>
    /\ UNCHANGED << session, sub, published, sent, certResponse, registerResponse, err,
                    outcome, files, reported >>

\* main.go:133-135
PublishCreateWait ==
    PublishWait("waitPublishCreate", "Failed to publish create certificate request: ",
                "selectCreate")

\* The cases of a select over a response channel and an error channel that
\* can proceed at once; with several, Go takes one of them at random.
SelectCases(responseChan, errorChan) ==
    {c \in {"response", "error"} :
        \/ c = "response" /\ responseChan # <<>>
        \/ c = "error" /\ errorChan # <<>>}

\* main.go:138, 139, 202, 204: the select is entered.  With a channel ready
\* it receives; otherwise the timer of time.After is started and main parks
\* on the three channels.
SelectCreate ==
    /\ pc = "selectCreate"
    /\ LET ready == SelectCases(certResponseChan, certErrorChan) IN
       IF ready = {}
       THEN /\ pc' = "parkedCreate"
            /\ timer' = [timer EXCEPT !["create"] = "armed"]
            /\ UNCHANGED <<certResponseChan, certErrorChan, certResponse, err, outcome>>
       ELSE \E c \in ready :
            \/ /\ c = "response"
               /\ certResponse' = Head(certResponseChan)
               /\ certResponseChan' = Tail(certResponseChan)
               /\ outcome' = [outcome EXCEPT !["create"] = "Success"]
               /\ pc' = "certReceived"
               /\ UNCHANGED <<certErrorChan, err, timer>>
            \/ /\ c = "error"
               /\ err' = Head(certErrorChan)
               /\ certErrorChan' = Tail(certErrorChan)
               /\ outcome' = [outcome EXCEPT !["create"] = "Failure"]
               /\ pc' = "certFailed"
               /\ UNCHANGED <<certResponseChan, certResponse, timer>>
    /\ UNCHANGED << exit, fatal, session, obound, sub, token, published, sent, inbound,
                    registerResponseChan, registerErrorChan, registerResponse,
                    files, reported >>

\* The timer of an exchange's select fires: a main parked in that select
\* takes the timeout case; after the select has been left nobody receives it.
TimerFires(ex, parked, timedOut) ==
    /\ exit = "running"
    /\ timer[ex] = "armed"
    /\ timer' = [timer EXCEPT ![ex] = "fired"]
    /\ IF pc = parked
       THEN /\ pc' = timedOut
            /\ outcome' = [outcome EXCEPT ![ex] = "TimedOut"]
       ELSE UNCHANGED <<pc, outcome>>
    /\ UNCHANGED << exit, fatal, session, obound, sub, token, published, sent, inbound,
                    certResponseChan, certErrorChan, registerResponseChan, registerErrorChan,
                    certResponse, registerResponse, err, files, reported >>

\* main.go:204
TimerCreate == TimerFires("create", "parkedCreate", "certTimeout")

\* Faulty variant of FatalCreateFailed: the failure is logged without ending
\* the run, and main goes on to the registration.
LogCreateFailed ==
    /\ pc = "certFailed"
    /\ pc' = "subscribeRegisterAccepted"
    /\ UNCHANGED << exit, fatal, memory, session, sub, published, sent, certResponse,
                    registerResponse, err, outcome, files, reported >>

\* main.go:203
FatalCreateFailed ==
    /\ pc = "certFailed"
    /\ Fatal("Certificate creation failed: ", err)
    /\ UNCHANGED << session, sub, published, sent, certResponse, registerResponse, err,
                    outcome, files, reported >>

\* main.go:205
FatalCreateTimeout ==
    /\ pc = "certTimeout"
    /\ Fatal("Timeout waiting for certificate creation response", NoError)
    /\ UNCHANGED << session, sub, published, sent, certResponse, registerResponse, err,
                    outcome, files, reported >>

\* A write whose failure is only logged: main goes on without the file.
WriteFileLogged(at, name, data, perm, msg, next) ==
    /\ pc = at
    /\ pc' = next
    /\ \/ files' = [files EXCEPT ![name] = [written |-> TRUE, data |-> data, perm |-> perm]]
       \/ UNCHANGED files
    /\ UNCHANGED << exit, fatal, memory, session, sub, published, sent, certResponse,
                    registerResponse, err, outcome, reported >>

\* os.WriteFile(name, []byte(data), perm), fatal when it fails.
WriteFile(at, name, data, perm, msg, next) ==
    /\ pc = at
    /\ \/ /\ files' = [files EXCEPT ![name] = [written |-> TRUE, data |-> data, perm |-> perm]]
          /\ pc' = next
          /\ UNCHANGED <<exit, fatal, memory>>
       \/ /\ Fatal(msg, Errorf("write: ", Text(name)))
          /\ UNCHANGED files
    /\ UNCHANGED << session, sub, published, sent, certResponse, registerResponse, err,
                    outcome, reported >>

\* main.go:140-147
WriteCertificate ==
    WriteFile("certReceived", "permanent_cert.pem", certResponse.val.certificatePem, "0644",
              "Failed to write permanent certificate to file: ", "writeKey")

\* Faulty variant of WriteKey: the certificate is written to the key file.
WriteKeyFromCertificate ==
    WriteFile("writeKey", "permanent_key.pem", certResponse.val.certificatePem, "0600",
              "Failed to write permanent private key to file: ", "subscribeRegisterAccepted")

\* main.go:149-152
WriteKey ==
    WriteFile("writeKey", "permanent_key.pem", certResponse.val.privateKey, "0600",
              "Failed to write permanent private key to file: ", "subscribeRegisterAccepted")

-----------------------------------------------------------------------------
(* main: the thing-registration exchange                                   *)

\* main.go:159
SubscribeRegisterAccepted ==
    Subscribe("subscribeRegisterAccepted", topicRegisterAccepted, "subscribeRegisterRejected")

\* main.go:168
SubscribeRegisterRejected ==
    Subscribe("subscribeRegisterRejected", topicRegisterRejected, "publishRegister")

\* main.go:174-181; json.Marshal writes the keys of a map in sorted order.
\* The nested object is {"SerialNumber": serial}.
registerThingPayload(ownershipToken, serial) ==
    Object(<< Member("certificateOwnershipToken", Str(ownershipToken)),
              Member("parameters", Map(serial)) >>)

\* Faulty variant of PublishRegister: the token is taken from the response
\* waiting in certResponseChan when there is one.
PublishRegisterLatestToken ==
    Publish("publishRegister", topicRegisterThing,
            registerThingPayload(
                IF certResponseChan # <<>>
                THEN Head(certResponseChan).val.certificateOwnershipToken
                ELSE certResponse.val.certificateOwnershipToken,
                serialNumber),
            "waitPublishRegister")

\* main.go:186
PublishRegister ==
    Publish("publishRegister", topicRegisterThing,
            registerThingPayload(certResponse.val.certificateOwnershipToken, serialNumber),
            "waitPublishRegister")

\* main.go:187-189
PublishRegisterWait ==
    PublishWait("waitPublishRegister", "Failed to publish register thing request: ",
                "selectRegister")

\* The second select with the error channel of the first exchange in its
\* error case: one error channel for both exchanges.
SelectRegisterSharedError ==
    /\ pc = "selectRegister"
    /\ LET ready == SelectCases(registerResponseChan, certErrorChan) IN
       IF ready = {}
       THEN /\ pc' = "parkedRegister"
            /\ timer' = [timer EXCEPT !["register"] = "armed"]
            /\ UNCHANGED <<registerResponseChan, certErrorChan, registerResponse, err, outcome>>
       ELSE \E c \in ready :
            \/ /\ c = "response"
               /\ registerResponse' = Head(registerResponseChan)
               /\ registerResponseChan' = Tail(registerResponseChan)
               /\ outcome' = [outcome EXCEPT !["register"] = "Success"]
               /\ pc' = "registerReceived"
               /\ UNCHANGED <<certErrorChan, err, timer>>
            \/ /\ c = "error"
               /\ err' = Head(certErrorChan)
               /\ certErrorChan' = Tail(certErrorChan)
               /\ outcome' = [outcome EXCEPT !["register"] = "Failure"]
               /\ pc' = "registerFailed"
               /\ UNCHANGED <<registerResponseChan, registerResponse, timer>>
    /\ UNCHANGED << exit, fatal, session, obound, sub, token, published, sent, inbound,
                    certResponseChan, registerErrorChan, certResponse, files, reported >>

\* main.go:192, 193, 196, 198
SelectRegister ==
    /\ pc = "selectRegister"
    /\ LET ready == SelectCases(registerResponseChan, registerErrorChan) IN
       IF ready = {}
       THEN /\ pc' = "parkedRegister"
            /\ timer' = [timer EXCEPT !["register"] = "armed"]
            /\ UNCHANGED <<registerResponseChan, registerErrorChan, registerResponse, err, outcome>>
       ELSE \E c \in ready :
            \/ /\ c = "response"
               /\ registerResponse' = Head(registerResponseChan)
               /\ registerResponseChan' = Tail(registerResponseChan)
               /\ outcome' = [outcome EXCEPT !["register"] = "Success"]
               /\ pc' = "registerReceived"
               /\ UNCHANGED <<registerErrorChan, err, timer>>
            \/ /\ c = "error"
               /\ err' = Head(registerErrorChan)
               /\ registerErrorChan' = Tail(registerErrorChan)
               /\ outcome' = [outcome EXCEPT !["register"] = "Failure"]
               /\ pc' = "registerFailed"
               /\ UNCHANGED <<registerResponseChan, registerResponse, timer>>
    /\ UNCHANGED << exit, fatal, session, obound, sub, token, published, sent, inbound,
                    certResponseChan, certErrorChan, certResponse, files, reported >>

\* main.go:198
TimerRegister == TimerFires("register", "parkedRegister", "registerTimeout")

\* main.go:194-195, 208 and the deferred Disconnect of main.go:102
ReportRegistered ==
    /\ pc = "registerReceived"
    /\ reported' = [thingName |-> registerResponse.val.thingName,
                    deviceConfiguration |-> registerResponse.val.deviceConfiguration,
                    done |-> TRUE]
    /\ session' = "disconnected"
    /\ pc' = "exited"
    /\ exit' = "ok"
    /\ ProcessEnds
    /\ UNCHANGED << fatal, sub, published, sent, certResponse, registerResponse, err,
                    outcome, files >>

\* A failed registration that is tried again: main publishes the request
\* once more instead of ending the run.
RetryRegisterFailed ==
    /\ pc = "registerFailed"
    /\ pc' = "publishRegister"
    /\ outcome' = [outcome EXCEPT !["register"] = "none"]
    /\ UNCHANGED << exit, fatal, memory, session, sub, published, sent, certResponse,
                    registerResponse, err, files, reported >>

\* main.go:197
FatalRegisterFailed ==
    /\ pc = "registerFailed"
    /\ Fatal("Thing registration failed: ", err)
    /\ UNCHANGED << session, sub, published, sent, certResponse, registerResponse, err,
                    outcome, files, reported >>

\* main.go:199
FatalRegisterTimeout ==
    /\ pc = "registerTimeout"
    /\ Fatal("Timeout waiting for thing registration response", NoError)
    /\ UNCHANGED << session, sub, published, sent, certResponse, registerResponse, err,
                    outcome, files, reported >>

-----------------------------------------------------------------------------
(* The delivery goroutine: the four subscription callbacks, run one at a   *)
(* time on the messages in the order they were received.  A send on a      *)
(* channel goes straight to a main parked in the select that receives from *)
(* it, into the buffer when that is empty, and blocks the goroutine (and   *)
(* every message behind) while the buffer is full.                         *)

\* Faulty variant of SendCertResponse: the accept callback resolves the
\* exchange whenever main has not left it, also after the timeout case was
\* taken (a shared result without an "already resolved" guard).
SendCertResponseLate(response) ==
    IF pc \in {"parkedCreate", "certTimeout"}
    THEN /\ certResponse' = response
         /\ outcome' = [outcome EXCEPT !["create"] = "Success"]
         /\ pc' = "certReceived"
         /\ UNCHANGED certResponseChan
    ELSE /\ Len(certResponseChan) < 1
         /\ certResponseChan' = Append(certResponseChan, response)
         /\ UNCHANGED <<certResponse, outcome, pc>>

\* certResponseChan <- response
SendCertResponse(response) ==
    IF pc = "parkedCreate"
    THEN /\ certResponse' = response
         /\ outcome' = [outcome EXCEPT !["create"] = "Success"]
         /\ pc' = "certReceived"
         /\ UNCHANGED certResponseChan
    ELSE /\ Len(certResponseChan) < 1
         /\ certResponseChan' = Append(certResponseChan, response)
         /\ UNCHANGED <<certResponse, outcome, pc>>

\* Faulty variant of SendCertError: the error is written to a variable that
\* main reads instead of being handed over once.
SendCertErrorShared(e) ==
    IF pc = "parkedCreate"
    THEN /\ err' = e
         /\ outcome' = [outcome EXCEPT !["create"] = "Failure"]
         /\ pc' = "certFailed"
         /\ UNCHANGED certErrorChan
    ELSE /\ err' = e
         /\ outcome' = [outcome EXCEPT !["create"] = "Failure"]
         /\ UNCHANGED <<certErrorChan, pc>>

\* certErrorChan <- e
SendCertError(e) ==
    IF pc = "parkedCreate"
    THEN /\ err' = e
         /\ outcome' = [outcome EXCEPT !["create"] = "Failure"]
         /\ pc' = "certFailed"
         /\ UNCHANGED certErrorChan
    ELSE /\ Len(certErrorChan) < 1
         /\ certErrorChan' = Append(certErrorChan, e)
         /\ UNCHANGED <<err, outcome, pc>>

\* registerResponseChan <- response
SendRegisterResponse(response) ==
    IF pc = "parkedRegister"
    THEN /\ registerResponse' = response
         /\ outcome' = [outcome EXCEPT !["register"] = "Success"]
         /\ pc' = "registerReceived"
         /\ UNCHANGED registerResponseChan
    ELSE /\ Len(registerResponseChan) < 1
         /\ registerResponseChan' = Append(registerResponseChan, response)
         /\ UNCHANGED <<registerResponse, outcome, pc>>

\* registerErrorChan <- e
SendRegisterError(e) ==
    IF pc = "parkedRegister"
    THEN /\ err' = e
         /\ outcome' = [outcome EXCEPT !["register"] = "Failure"]
         /\ pc' = "registerFailed"
         /\ UNCHANGED registerErrorChan
    ELSE /\ Len(registerErrorChan) < 1
         /\ registerErrorChan' = Append(registerErrorChan, e)
         /\ UNCHANGED <<err, outcome, pc>>

\* The message the delivery goroutine hands to a callback next.
Delivering(topic) ==
    /\ exit = "running"
    /\ inbound # <<>>
    /\ Head(inbound).topic = topic

\* main.go:109-116
OnCreateAccepted ==
    /\ Delivering(topicCreateAccepted)
    /\ LET payload == Head(inbound).payload
           r == Unmarshal(CreateCertificateResponse, payload)
       IN IF ~r.ok
          THEN /\ SendCertError(Errorf("failed to unmarshal certificate response: ", r.err))
               /\ UNCHANGED <<certResponseChan, certResponse>>
          ELSE /\ SendCertResponse(Decoded(CreateCertificateResponse, payload))
               /\ UNCHANGED <<certErrorChan, err>>
    /\ inbound' = Tail(inbound)
    /\ UNCHANGED << exit, fatal, session, obound, sub, token, published, sent,
                    registerResponseChan, registerErrorChan, registerResponse,
                    timer, files, reported >>

\* Faulty variant of OnCreateRejected: the error does not carry the body.
OnCreateRejectedOpaque ==
    /\ Delivering(topicCreateRejected)
    /\ SendCertError(Errorf("certificate creation rejected", Text("")))
    /\ inbound' = Tail(inbound)
    /\ UNCHANGED << exit, fatal, session, obound, sub, token, published, sent,
                    certResponseChan, certResponse,
                    registerResponseChan, registerErrorChan, registerResponse,
                    timer, files, reported >>

\* main.go:118-120
OnCreateRejected ==
    /\ Delivering(topicCreateRejected)
    /\ SendCertError(Errorf("certificate creation rejected: ", Head(inbound).payload))
    /\ inbound' = Tail(inbound)
    /\ UNCHANGED << exit, fatal, session, obound, sub, token, published, sent,
                    certResponseChan, certResponse,
                    registerResponseChan, registerErrorChan, registerResponse,
                    timer, files, reported >>

\* main.go:159-166
OnRegisterAccepted ==
    /\ Delivering(topicRegisterAccepted)
    /\ LET payload == Head(inbound).payload
           r == Unmarshal(RegisterThingResponse, payload)
       IN IF ~r.ok
          THEN /\ SendRegisterError(Errorf("failed to unmarshal register thing response: ", r.err))
               /\ UNCHANGED <<registerResponseChan, registerResponse>>
          ELSE /\ SendRegisterResponse(Decoded(RegisterThingResponse, payload))
               /\ UNCHANGED <<registerErrorChan, err>>
    /\ inbound' = Tail(inbound)
    /\ UNCHANGED << exit, fatal, session, obound, sub, token, published, sent,
                    certResponseChan, certErrorChan, certResponse,
                    timer, files, reported >>

\* main.go:168-170
OnRegisterRejected ==
    /\ Delivering(topicRegisterRejected)
    /\ SendRegisterError(Errorf("thing registration rejected: ", Head(inbound).payload))
    /\ inbound' = Tail(inbound)
    /\ UNCHANGED << exit, fatal, session, obound, sub, token, published, sent,
                    certResponseChan, certErrorChan, certResponse,
                    registerResponseChan, registerResponse,
                    timer, files, reported >>

-----------------------------------------------------------------------------
(* The environment: the broker and the provisioning service                *)

\* The broker handles a SUBSCRIBE: it grants the subscription or refuses it
\* (SUBACK with a failure return code).
BrokerSubscribe ==
    /\ exit = "running"
    /\ obound # <<>>
    /\ Head(obound).type = "SUBSCRIBE"
    /\ \E granted \in {"active", "failed"} :
           sub' = [sub EXCEPT ![Head(obound).topic] = granted]
    /\ obound' = Tail(obound)
    /\ UNCHANGED << pc, exit, fatal, session, token, published, sent, inbound,
                    certResponseChan, certErrorChan, registerResponseChan, registerErrorChan,
                    certResponse, registerResponse, err, outcome, timer, files, reported >>

\* The broker takes a PUBLISH and acknowledges it, or the publish fails and
\* its token carries the error.
BrokerPublish ==
    /\ exit = "running"
    /\ obound # <<>>
    /\ Head(obound).type = "PUBLISH"
    /\ \/ /\ published' = Append(published,
                                 Message(Head(obound).topic, Head(obound).payload))
          /\ token' = "done"
       \/ /\ token' = "error"
          /\ UNCHANGED published
    /\ obound' = Tail(obound)
    /\ UNCHANGED << pc, exit, fatal, session, sub, sent, inbound,
                    certResponseChan, certErrorChan, registerResponseChan, registerErrorChan,
                    certResponse, registerResponse, err, outcome, timer, files, reported >>

\* Whether the request of an exchange has reached the service.
Requested(ex) == \E i \in 1..Len(published) : published[i].topic = RequestTopic(ex)

\* The service answers the request of an exchange, or the broker delivers an
\* answer once more.  The answer reaches the client when the subscription to
\* its topic is active and is dropped by the broker otherwise.  An answer is
\* sent before the timer of the exchange expires: one sent later is, for the
\* client, one sent in time that stays in the inbound queue past the expiry.
Respond(ex, responses, max) ==
    /\ exit = "running"
    /\ Requested(ex)
    /\ timer[ex] # "fired"
    /\ Len(sent["create"]) + Len(sent["register"]) < max
    /\ \E m \in responses :
         LET lost == sub[m.topic] # "active" IN
         /\ sent' = [sent EXCEPT ![ex] =
                Append(@, [topic |-> m.topic, payload |-> m.payload,
                           lost |-> lost])]
         /\ inbound' = IF lost THEN inbound ELSE Append(inbound, m)
    /\ UNCHANGED << pc, exit, fatal, session, obound, sub, token, published,
                    certResponseChan, certErrorChan, registerResponseChan, registerErrorChan,
                    certResponse, registerResponse, err, outcome, timer, files, reported >>

\* The service answers with any of the payloads, well-formed or not.
ServiceRespond(ex) == Respond(ex, Responses(ex), MaxDeliveries)

-----------------------------------------------------------------------------

Next ==
    \/ Connect
    \/ SubscribeCreateAccepted
    \/ SubscribeCreateRejected
    \/ PublishCreate
    \/ PublishCreateWait
    \/ SelectCreate
    \/ TimerCreate
    \/ FatalCreateFailed
    \/ FatalCreateTimeout
    \/ WriteCertificate
    \/ WriteKey
    \/ SubscribeRegisterAccepted
    \/ SubscribeRegisterRejected
    \/ PublishRegister
    \/ PublishRegisterWait
    \/ SelectRegister
    \/ TimerRegister
    \/ ReportRegistered
    \/ FatalRegisterFailed
    \/ FatalRegisterTimeout
    \/ OnCreateAccepted
    \/ OnCreateRejected
    \/ OnRegisterAccepted
    \/ OnRegisterRejected
    \/ BrokerSubscribe
    \/ BrokerPublish
    \/ ServiceRespond("create")
    \/ ServiceRespond("register")

Spec == Init /\ [][Next]_vars

\* The steps of the main goroutine.
Main ==
    \/ Connect
    \/ SubscribeCreateAccepted
    \/ SubscribeCreateRejected
    \/ PublishCreate
    \/ PublishCreateWait
    \/ SelectCreate
    \/ FatalCreateFailed
    \/ FatalCreateTimeout
    \/ WriteCertificate
    \/ WriteKey
    \/ SubscribeRegisterAccepted
    \/ SubscribeRegisterRejected
    \/ PublishRegister
    \/ PublishRegisterWait
    \/ SelectRegister
    \/ ReportRegistered
    \/ FatalRegisterFailed
    \/ FatalRegisterTimeout

\* The expiries of the two time.After timers.
Timers == TimerCreate \/ TimerRegister

\* The runs in which the Go scheduler keeps running a runnable main
\* goroutine and the runtime fires a started timer.  Nothing is assumed of
\* the broker, of the service or of the delivery goroutine.
FairSpec ==
    /\ Spec
    /\ WF_vars(Main)
    /\ WF_vars(Timers)

\* The callbacks, run one at a time by the client's delivery goroutine.
Callbacks ==
    \/ OnCreateAccepted
    \/ OnCreateRejected
    \/ OnRegisterAccepted
    \/ OnRegisterRejected

\* Redeliveries of at-least-once messages make one response more.
MaxRedeliveries == MaxDeliveries + 1

\* A complete accept and a reject of each exchange.
ProperResponses(ex) ==
    IF ex = "create"
    THEN { Message(topicCreateAccepted, Object(CreateMembers("tok123"))),
           Message(topicCreateRejected, Text("quota exceeded")) }
    ELSE { Message(topicRegisterAccepted, Object(RegisterMembers("thing-1"))),
           Message(topicRegisterRejected, Text("quota exceeded")) }

\* The service answers with proper responses only, and the broker delivers
\* them again (QoS 1).
ServiceRedelivers(ex) == Respond(ex, ProperResponses(ex), MaxRedeliveries)

NextRedelivery ==
    \/ Connect
    \/ SubscribeCreateAccepted
    \/ SubscribeCreateRejected
    \/ PublishCreate
    \/ PublishCreateWait
    \/ SelectCreate
    \/ TimerCreate
    \/ FatalCreateFailed
    \/ FatalCreateTimeout
    \/ WriteCertificate
    \/ WriteKey
    \/ SubscribeRegisterAccepted
    \/ SubscribeRegisterRejected
    \/ PublishRegister
    \/ PublishRegisterWait
    \/ SelectRegister
    \/ TimerRegister
    \/ ReportRegistered
    \/ FatalRegisterFailed
    \/ FatalRegisterTimeout
    \/ OnCreateAccepted
    \/ OnCreateRejected
    \/ OnRegisterAccepted
    \/ OnRegisterRejected
    \/ BrokerSubscribe
    \/ BrokerPublish
    \/ ServiceRedelivers("create")
    \/ ServiceRedelivers("register")

\* The runs with proper responses and one delivery more.
RedeliverySpec == Init /\ [][NextRedelivery]_vars

-----------------------------------------------------------------------------
(* Vocabulary of the properties                                            *)

\* The responses of an exchange that reached the client, in receiving order.
Arrived(ex) == SelectSeq(sent[ex], LAMBDA r : ~r.lost)

\* How many of them are still waiting for the delivery goroutine.
Waiting(ex) ==
    Cardinality({i \in DOMAIN inbound : ExchangeOf(inbound[i].topic) = ex})

\* The responses of an exchange whose callback has completed, in order.
Delivered(ex) == SubSeq(Arrived(ex), 1, Len(Arrived(ex)) - Waiting(ex))

IsAccept(r) == r.topic \in {topicCreateAccepted, topicRegisterAccepted}

IsReject(r) == r.topic \in {topicCreateRejected, topicRegisterRejected}

ShapeOf(ex) == IF ex = "create" THEN CreateCertificateResponse ELSE RegisterThingResponse

\* A payload with every field of the response shape, once, with its type.
WellFormed(shape, payload) ==
    /\ payload.kind = "object"
    /\ \A f \in DOMAIN shape :
         /\ Cardinality({i \in DOMAIN payload.members : payload.members[i].k = f}) = 1
         /\ \A i \in DOMAIN payload.members :
              payload.members[i].k = f => payload.members[i].v.t = shape[f]

\* The value a well-formed payload gives field f.
FieldOf(payload, f) ==
    LET i == CHOOSE j \in DOMAIN payload.members : payload.members[j].k = f
    IN payload.members[i].v.s

\* A transport operation on the registration topics has been made.
RegistrationStarted ==
    \/ sub[topicRegisterAccepted] # "none"
    \/ sub[topicRegisterRejected] # "none"
    \/ \E i \in DOMAIN obound : ExchangeOf(obound[i].topic) = "register"
    \/ Requested("register")

\* What main holds and has done: everything but the transport's queues.
orchestrator ==
    << pc, exit, fatal, session, published, certResponse, registerResponse, err,
       outcome, files, reported >>

\* This step completes the callback of a message of exchange ex.
DeliveryStep(ex) ==
    /\ inbound # <<>>
    /\ ExchangeOf(Head(inbound).topic) = ex
    /\ inbound' = Tail(inbound)
    /\ exit' = "running"

\* This step is the expiry of the timer of exchange ex.
ExpiryStep(ex) == timer[ex] = "armed" /\ timer'[ex] = "fired"

-----------------------------------------------------------------------------
(* Properties                                                              *)

\* C1: in each exchange both response subscriptions are active at the broker
\* before the request is published, so that no response to a published
\* request is dropped for want of an active subscription.
C1_SubscribedBeforePublish ==
    \A ex \in Exchanges :
        /\ Requested(ex) =>
               sub[AcceptedTopic(ex)] = "active" /\ sub[RejectedTopic(ex)] = "active"
        /\ \A i \in DOMAIN sent[ex] : ~sent[ex][i].lost

\* C2: an exchange resolves exactly once: once its select has taken a case
\* the outcome never changes, and a delivery on its topics or the expiry of
\* its timer after that leaves main's state untouched; main is past the
\* select of an exchange exactly when that exchange has an outcome.
C2_ResolveExactlyOnce ==
    /\ [](/\ outcome["create"] = "none" <=>
                pc \in {"connect", "subscribeCreateAccepted", "subscribeCreateRejected",
                        "publishCreate", "waitPublishCreate", "selectCreate", "parkedCreate"}
                \/ (pc = "exited" /\ ~Requested("create"))
                \/ (pc = "exited" /\ fatal.msg = "Failed to publish create certificate request: ")
          /\ outcome["register"] # "none" =>
                pc \in {"registerReceived", "registerFailed", "registerTimeout", "exited"})
    /\ [][\A ex \in Exchanges :
            outcome[ex] # "none" =>
                /\ outcome'[ex] = outcome[ex]
                /\ (DeliveryStep(ex) \/ ExpiryStep(ex)) => UNCHANGED orchestrator]_vars

\* C2 happens: the create exchange was resolved by an accept handed to the
\* parked select, after which its timer expired and a reject was delivered.
C2_Witness ==
    /\ outcome["create"] = "Success"
    /\ timer["create"] = "fired"
    /\ certErrorChan # <<>>

\* C3: when the timer of an exchange expires with nothing delivered to it,
\* the exchange yields TimedOut, stays TimedOut whatever is delivered later,
\* and the run ends reporting the timeout.
C3_TimeoutDeterminism ==
    [][\A ex \in Exchanges :
         /\ (ExpiryStep(ex) /\ outcome[ex] = "none") => outcome'[ex] = "TimedOut"
         /\ outcome[ex] = "TimedOut" =>
               /\ outcome'[ex] = "TimedOut"
               /\ pc' \in {"certTimeout", "registerTimeout", "exited"}
               /\ exit' # "running" =>
                     /\ exit' = "fatal"
                     /\ fatal'.msg \in {"Timeout waiting for certificate creation response",
                                        "Timeout waiting for thing registration response"}
                     /\ fatal'.err = NoError]_vars

\* C3 happens: the create exchange has timed out and an accept was delivered
\* after that.
C3_Witness ==
    /\ outcome["create"] = "TimedOut"
    /\ pc = "certTimeout"
    /\ certResponseChan # <<>>

\* C4: an accept whose payload is malformed (not JSON, or without a field
\* of the response shape) never resolves the exchange as Success.
C4_MalformedAcceptFails ==
    /\ outcome["create"] = "Success" =>
           WellFormed(CreateCertificateResponse, certResponse.src)
    /\ outcome["register"] = "Success" =>
           WellFormed(RegisterThingResponse, registerResponse.src)

\* C5: no transport operation on the registration topics is made unless the
\* create exchange yielded Success; after a Failure or a TimedOut there is
\* none.
C5_Sequencing ==
    /\ RegistrationStarted => outcome["create"] = "Success"
    /\ pc \in {"subscribeRegisterAccepted", "subscribeRegisterRejected", "publishRegister",
               "waitPublishRegister", "selectRegister", "parkedRegister",
               "registerReceived", "registerFailed", "registerTimeout"} =>
           outcome["create"] = "Success"
    /\ outcome["register"] # "none" => outcome["create"] = "Success"

\* C5 happens: the create exchange yielded Failure and the run has ended.
C5_Witness ==
    /\ outcome["create"] = "Failure"
    /\ exit = "fatal"
    /\ ~RegistrationStarted

\* The error the reject callback of the create exchange makes of body b.
RejectedError(b) == Errorf("certificate creation rejected: ", b)

\* C6: when only rejects have reached the client on the create topics, no
\* credential file is ever written and the exchange never yields Success; the
\* error handed to main, the error main holds once the exchange has failed
\* and the reason of the fatal exit all carry the body of the first reject
\* unchanged.
C6_Rejection ==
    LET arrived == Arrived("create") IN
    (arrived # <<>> /\ \A i \in DOMAIN arrived : IsReject(arrived[i])) =>
        /\ \A f \in FileNames : ~files[f].written
        /\ outcome["create"] # "Success"
        /\ (certErrorChan # <<>> /\ outcome["create"] = "none") =>
               /\ Head(certErrorChan) = RejectedError(arrived[1].payload)
               /\ pc # "parkedCreate"
        /\ (outcome["create"] = "Failure" /\ exit = "running") =>
               err = RejectedError(arrived[1].payload)
        /\ (outcome["create"] = "Failure" /\ exit # "running") =>
               /\ exit = "fatal"
               /\ fatal = [msg |-> "Certificate creation failed: ",
                           err |-> RejectedError(arrived[1].payload)]

\* C6 happens: the run has ended on the reject "quota exceeded".
C6_Witness ==
    /\ exit = "fatal"
    /\ outcome["create"] = "Failure"
    /\ Len(sent["create"]) = 1
    /\ fatal.err = RejectedError(Text("quota exceeded"))
    /\ \A f \in FileNames : ~files[f].written

\* C7: the two credential files are written only after the create exchange
\* yielded Success, and for a well-formed response they hold exactly its
\* certificatePem and its privateKey, whatever the order of its members;
\* both are written before the registration starts.
C7_CredentialsPersistedExactly ==
    /\ \A f \in FileNames : files[f].written => outcome["create"] = "Success"
    /\ RegistrationStarted => \A f \in FileNames : files[f].written
    /\ (outcome["create"] = "Success"
          /\ WellFormed(CreateCertificateResponse, certResponse.src)) =>
            /\ files["permanent_cert.pem"].written =>
                 files["permanent_cert.pem"].data = FieldOf(certResponse.src, "certificatePem")
            /\ files["permanent_key.pem"].written =>
                 files["permanent_key.pem"].data = FieldOf(certResponse.src, "privateKey")

\* C7 happens: both files are written from a response whose members came in
\* reverse order.
C7_Witness ==
    /\ \A f \in FileNames : files[f].written
    /\ certResponse.src = Object(Reverse(CreateMembers("tok456")))

\* The PUBLISH packets main has handed to the client or the broker has taken.
Requests ==
    {published[i] : i \in DOMAIN published}
        \cup {Message(obound[i].topic, obound[i].payload) :
                 i \in {j \in DOMAIN obound : obound[j].type = "PUBLISH"}}

\* C8: the registration request carries the ownership token of the response
\* that resolved the create exchange, and the configured serial number as
\* its parameter.
C8_RegistrationCarriesToken ==
    \A r \in Requests :
        r.topic = topicRegisterThing =>
            /\ outcome["create"] = "Success"
            /\ r.payload.kind = "object"
            /\ Len(r.payload.members) = 2
            /\ \E i \in DOMAIN r.payload.members :
                 /\ r.payload.members[i].k = "parameters"
                 /\ r.payload.members[i].v = Map(serialNumber)
            /\ \E i \in DOMAIN r.payload.members :
                 /\ r.payload.members[i].k = "certificateOwnershipToken"
                 /\ r.payload.members[i].v.t = "str"
                 /\ \A j \in DOMAIN certResponse.src.members :
                      certResponse.src.members[j].k = "certificateOwnershipToken" =>
                          r.payload.members[i].v.s = certResponse.src.members[j].v.s

\* C8 happens: the registration request is out while another accept, with
\* another token, waits in certResponseChan.
C8_Witness ==
    /\ Requested("register")
    /\ certResponseChan # <<>>
    /\ WellFormed(CreateCertificateResponse, certResponse.src)
    /\ Head(certResponseChan).val.certificateOwnershipToken
           # certResponse.val.certificateOwnershipToken

\* The service answered the request of exchange ex with one well-formed
\* accept and nothing else, and the exchange did not time out with that
\* answer on its way to the callback.
AnsweredInBudget(ex) ==
    /\ Len(sent[ex]) = 1
    /\ IsAccept(sent[ex][1])
    /\ WellFormed(ShapeOf(ex), sent[ex][1].payload)
    /\ sent[ex][1].lost \/ outcome[ex] # "TimedOut"

\* C9: a run in which the service answers both requests with one well-formed
\* accept within the budget ends Registered, reporting the thing name and
\* the configuration of the registration accept.
C9_EndToEnd ==
    (exit # "running" /\ AnsweredInBudget("create") /\ AnsweredInBudget("register")) =>
        /\ exit = "ok"
        /\ outcome["register"] = "Success"
        /\ reported.done
        /\ reported.thingName = FieldOf(sent["register"][1].payload, "thingName")
        /\ reported.deviceConfiguration
               = FieldOf(sent["register"][1].payload, "deviceConfiguration")

\* C10: when an accept and a reject of one exchange have both been
\* delivered, the one delivered first decides: accept then reject yields
\* Success, reject then accept yields Failure.
C10_FirstArrivalWins ==
    \A ex \in Exchanges :
        LET d == Delivered(ex) IN
        (exit = "running" /\ Len(d) >= 2 /\ outcome[ex] \in {"Success", "Failure"}) =>
            /\ (IsAccept(d[1]) /\ Unmarshal(ShapeOf(ex), d[1].payload).ok /\ IsReject(d[2]))
                   => outcome[ex] = "Success"
            /\ (IsReject(d[1]) /\ IsAccept(d[2])) => outcome[ex] = "Failure"

PublishFailures ==
    [create   |-> "Failed to publish create certificate request: ",
     register |-> "Failed to publish register thing request: "]

\* main is at the wait on the publish token of exchange ex.
AtPublishWait(ex) ==
    pc = IF ex = "create" THEN "waitPublishCreate" ELSE "waitPublishRegister"

\* C11: a publish whose token carries an error ends the exchange at once:
\* main's next step from the wait is the fatal exit with the publish message
\* of that exchange, main is never past the wait with a failed token, the
\* exchange has no outcome, and nothing of a later step (a file written, the
\* registration started, a result reported) has happened.
C11_PublishFailureFatal ==
    /\ [](/\ token = "error" => AtPublishWait("create") \/ AtPublishWait("register")
          /\ \A ex \in Exchanges :
               fatal.msg = PublishFailures[ex] =>
                   /\ exit = "fatal"
                   /\ ~Requested(ex)
                   /\ outcome[ex] = "none"
                   /\ outcome["register"] = "none"
                   /\ ~reported.done
                   /\ ex = "create" =>
                          /\ \A f \in FileNames : ~files[f].written
                          /\ ~RegistrationStarted)
    /\ [][\A ex \in Exchanges :
            (AtPublishWait(ex) /\ token = "error" /\ pc' # pc) =>
                /\ exit' = "fatal"
                /\ fatal'.msg = PublishFailures[ex]
                /\ UNCHANGED << outcome, files, published, sub, reported >>]_vars

\* C11 happens: the broker refused the registration request and the run
\* ended on that, the credentials on file.
C11_Witness ==
    /\ exit = "fatal"
    /\ fatal.msg = PublishFailures["register"]
    /\ \A f \in FileNames : files[f].written

PersistenceFailures ==
    { "Failed to write permanent certificate to file: ",
      "Failed to write permanent private key to file: " }

\* main is in the registration step, from its first subscribe to its end.
InRegistration ==
    pc \in { "subscribeRegisterRejected", "publishRegister", "waitPublishRegister",
             "selectRegister", "parkedRegister", "registerReceived", "registerFailed",
             "registerTimeout" }

\* C12: the registration topics are subscribed to and the registration
\* request is published only with both credential files written; a write
\* that fails ends the run with the fatal message of that file, the key is
\* not written after a failed certificate write, and the registration never
\* starts.
C12_PersistenceGatesRegistration ==
    /\ [](/\ (RegistrationStarted \/ InRegistration) =>
                 /\ \A f \in FileNames : files[f].written
                 /\ fatal.msg \notin PersistenceFailures
          /\ files["permanent_key.pem"].written => files["permanent_cert.pem"].written
          /\ fatal.msg \in PersistenceFailures =>
                 /\ exit = "fatal"
                 /\ ~files["permanent_key.pem"].written
                 /\ ~RegistrationStarted
                 /\ outcome["register"] = "none")
    /\ [][(pc \in {"certReceived", "writeKey"} /\ pc' # pc /\ files' = files) =>
              /\ exit' = "fatal"
              /\ fatal'.msg \in PersistenceFailures
              /\ UNCHANGED << sub, obound, published >>]_vars

\* C12 happens: the certificate was written, the write of the key failed and
\* the run ended there.
C12_Witness ==
    /\ exit = "fatal"
    /\ fatal.msg = "Failed to write permanent private key to file: "
    /\ files["permanent_cert.pem"].written
    /\ ~files["permanent_key.pem"].written
    /\ ~RegistrationStarted

\* C13: a subscription that fails aborts the run: the request of its
\* exchange is not published after it, and the run does not end in that
\* exchange's timeout.
C13_SubscribeFailureFatal ==
    \A ex \in Exchanges :
        (sub[AcceptedTopic(ex)] = "failed" \/ sub[RejectedTopic(ex)] = "failed") =>
            /\ ~Requested(ex)
            /\ outcome[ex] # "TimedOut"

\* This step takes a value out of an outcome channel of exchange ex while
\* the process goes on: a receive by main's select.
ReceiveStep(ex) ==
    /\ exit' = "running"
    /\ IF ex = "create"
       THEN Len(certResponseChan') < Len(certResponseChan)
            \/ Len(certErrorChan') < Len(certErrorChan)
       ELSE Len(registerResponseChan') < Len(registerResponseChan)
            \/ Len(registerErrorChan') < Len(registerErrorChan)

\* C14: the pair of outcome channels of an exchange is written once and read
\* once: a callback of the exchange completes its send only when no callback
\* of that exchange has sent before, and a value is received from the pair
\* only while the exchange has no outcome.
C14_WrittenOnceReadOnce ==
    [][\A ex \in Exchanges :
         /\ DeliveryStep(ex) => Delivered(ex) = <<>>
         /\ ReceiveStep(ex) => outcome[ex] = "none"]_vars

\* This step is a subscribe or a publish of main on a registration topic.
RegistrationOperation ==
    /\ pc \in {"subscribeRegisterAccepted", "subscribeRegisterRejected", "publishRegister"}
    /\ Len(obound') > Len(obound)

\* C15: the registration exchange is started only with nothing left in the
\* outcome channels of the issuance exchange: at every subscribe and publish
\* on a registration topic certResponseChan and certErrorChan are empty.
C15_NoLeftoverAtRegistration ==
    [][RegistrationOperation => certResponseChan = <<>> /\ certErrorChan = <<>>]_vars

\* The errors the callbacks of the registration topics make.
RegisterErrors ==
    { "failed to unmarshal register thing response: ", "thing registration rejected: " }

\* The payload was sent by the service on the registration accepted topic.
FromRegistrationAccept(payload) ==
    \E i \in DOMAIN sent["register"] :
        /\ sent["register"][i].topic = topicRegisterAccepted
        /\ sent["register"][i].payload = payload

\* C16: a delivery on the create topics never resolves the registration: it
\* leaves the registration's channels, result and outcome alone and, once the
\* create exchange is resolved, everything main holds.  The registration gets
\* its outcome only in a delivery on a registration topic, in a receive from
\* a registration channel, or at the expiry of its own timer; a Success
\* carries a payload of the registration accepted topic and a Failure an
\* error made by a registration callback.
C16_StrayIssuanceDelivery ==
    /\ [](/\ \A i \in DOMAIN registerResponseChan :
                FromRegistrationAccept(registerResponseChan[i].src)
          /\ \A i \in DOMAIN registerErrorChan :
                registerErrorChan[i].prefix \in RegisterErrors
          /\ (exit = "running" /\ outcome["register"] = "Success") =>
                FromRegistrationAccept(registerResponse.src)
          /\ (exit = "running" /\ outcome["register"] = "Failure") =>
                err.prefix \in RegisterErrors)
    /\ [][/\ DeliveryStep("create") =>
                /\ UNCHANGED << registerResponseChan, registerErrorChan, registerResponse >>
                /\ outcome'["register"] = outcome["register"]
                /\ outcome["create"] # "none" => UNCHANGED orchestrator
          /\ (outcome["register"] = "none" /\ outcome'["register"] # "none") =>
                \/ DeliveryStep("register") /\ pc = "parkedRegister"
                \/ /\ pc = "selectRegister"
                   /\ ReceiveStep("register")
                   /\ UNCHANGED << certResponseChan, certErrorChan >>
                \/ ExpiryStep("register") /\ outcome'["register"] = "TimedOut"]_vars

\* C16 happens: a second accept of the create exchange was delivered after
\* that exchange was resolved, and the registration was resolved by its own
\* accept.
C16_Witness ==
    /\ pc = "registerReceived"
    /\ outcome["register"] = "Success"
    /\ certResponseChan # <<>>

\* The positions of main in program order; the three ends of a select share
\* a stage.
Stages ==
    << {"connect"}, {"subscribeCreateAccepted"}, {"subscribeCreateRejected"},
       {"publishCreate"}, {"waitPublishCreate"}, {"selectCreate"}, {"parkedCreate"},
       {"certReceived", "certFailed", "certTimeout"}, {"writeKey"},
       {"subscribeRegisterAccepted"}, {"subscribeRegisterRejected"},
       {"publishRegister"}, {"waitPublishRegister"}, {"selectRegister"},
       {"parkedRegister"}, {"registerReceived", "registerFailed", "registerTimeout"},
       {"exited"} >>

Stage(p) == CHOOSE i \in DOMAIN Stages : p \in Stages[i]

\* How many times the request of an exchange was handed to the transport.
PublishCount(ex) ==
    Cardinality({i \in DOMAIN published : published[i].topic = RequestTopic(ex)})
    + Cardinality({i \in DOMAIN obound :
                       obound[i].type = "PUBLISH" /\ obound[i].topic = RequestTopic(ex)})

\* C17: the run is linear and tries nothing twice: each request is published
\* at most once, main only moves forward in program order, a topic is
\* subscribed once, a failed or timed-out exchange is followed by the fatal
\* exit with no publish, subscribe or file write in between, and an ended
\* run does nothing more.
C17_LinearNoRetry ==
    /\ [](/\ \A ex \in Exchanges : PublishCount(ex) <= 1
          /\ \E i \in DOMAIN Stages : pc \in Stages[i]
          /\ (exit # "running") <=> (pc = "exited"))
    /\ [][/\ pc' # pc => Stage(pc') > Stage(pc)
          /\ \A t \in ResponseTopics : sub'[t] = "pending" => sub[t] \in {"none", "pending"}
          /\ (pc \in {"certFailed", "certTimeout", "registerFailed", "registerTimeout"}
                /\ pc' # pc) =>
                /\ exit' = "fatal"
                /\ UNCHANGED << published, files, outcome, reported >>
                /\ \A t \in ResponseTopics : sub'[t] = sub[t]
          /\ exit # "running" => UNCHANGED vars]_vars

\* C17 happens: the registration was rejected and the run ended there, each
\* request published once.
C17_Witness ==
    /\ exit = "fatal"
    /\ fatal.msg = "Thing registration failed: "
    /\ outcome["register"] = "Failure"
    /\ PublishCount("create") = 1
    /\ PublishCount("register") = 1

\* C18: every run ends.  A main parked in a select gets an outcome, by a
\* delivery or by the timer of that select, and the run reaches its end:
\* the success report, or a fatal exit.
C18_Terminates ==
    /\ \A ex \in Exchanges :
          (pc = (IF ex = "create" THEN "parkedCreate" ELSE "parkedRegister"))
              ~> (outcome[ex] # "none")
    /\ <>(pc = "exited" /\ (exit = "fatal" \/ (exit = "ok" /\ reported.done)))

\* C19: the session is destroyed on every way out: once the run has ended,
\* with success or with a fatal error, no connected session is left.
C19_SessionDestroyed ==
    exit # "running" => session # "connected"

\* C20: no callback holds up the delivery goroutine: while main waits in the
\* second select and the client has received a well-formed accept of the
\* registration, the callback of the message at the head of the inbound
\* queue can complete, so that the accept gets to main.
C20_DeliveryNeverBlocked ==
    (/\ pc = "parkedRegister"
     /\ \E i \in DOMAIN inbound :
           /\ inbound[i].topic = topicRegisterAccepted
           /\ WellFormed(RegisterThingResponse, inbound[i].payload))
        => ENABLED Callbacks

=============================================================================
